---------------------------- MODULE Spec2Model ----------------------------
(***************************************************************************)
(* State-machine model of YahooFinanceServer (src/index.js): the           *)
(* subscription / broadcast engine of the ticker server.                   *)
(*                                                                         *)
(* Every handler of the server runs to completion on Node's single event   *)
(* loop, so each handler is one atomic action.  JavaScript Map and Set     *)
(* become functions and sets; where the code iterates a Set, the order     *)
(* (insertion order in the code) is chosen nondeterministically.           *)
(*                                                                         *)
(* Money is fixed-point, in units of 0.01 (the floor of line 262/299).     *)
(* Math.random() is an input: a draw r stands for the value r/100.         *)
(***************************************************************************)
EXTENDS Integers, Sequences, FiniteSets, TLC

(* ------------------------------ bounds -------------------------------- *)

\* Last reading of the clock (Date.now()); one tick needs one clock step.
MaxTime == 1

(* --------------------------- input domains ---------------------------- *)

\* Symbols the clients of the main specification ask for: an equity of the
\* base-price table and a crypto pair of it.
Symbols == {"AAPL", "BTC-USD"}

\* Symbols of the price specification: with a symbol outside the table, and a
\* symbol that names a property every JavaScript object inherits.
PriceSymbols == {"AAPL", "BTC-USD", "ZZZ", "constructor"}

\* Values generateClientId can return (two of the 36^9 strings).
ClientIds == {"client_a", "client_b"}

\* Map iteration visits clients in a fixed order in the model: the order of
\* the sends of one fan-out among different clients is not modelled.
ClientOrder == <<"client_a", "client_b">>

\* The connections (ws objects) of one run, accepted in this order.
Conns == {1, 2}

\* The symbols arrays of the subscribe and unsubscribe messages of the main
\* specification: empty, one symbol, both symbols, one symbol twice.
SymbolArrays ==
    {<<>>, <<"AAPL">>, <<"BTC-USD">>, <<"AAPL", "BTC-USD">>, <<"BTC-USD", "AAPL">>,
     <<"AAPL", "AAPL">>}

\* The symbols arrays of the price specification: one symbol.
PriceSymbolArrays == {<<s>> : s \in PriceSymbols}

\* An element of a symbols array that is not a string: the JSON number 1,
\* written as a token that is none of the symbol strings.
NonStrings == {"(number 1)"}

\* The symbols arrays of the specification of requests with such an element.
NonStringArrays ==
    {<<"AAPL">>, <<"(number 1)">>, <<"AAPL", "(number 1)">>, <<"(number 1)", "AAPL">>}

Range(f) == {f[i] : i \in DOMAIN f}

(* --------------------------- JS numbers ------------------------------- *)

\* NaN (and a non-numeric value where a number is expected) is one value
\* below every number of the model; comparisons with it are false (Gt, Le).
NaN == 0 - 1000000000

Gt(a, b) == a # NaN /\ b # NaN /\ a > b
Le(a, b) == a # NaN /\ b # NaN /\ a <= b

\* Math.max / Math.min: NaN if an argument is NaN.
MathMax(a, b) == IF a = NaN \/ b = NaN THEN NaN ELSE IF a >= b THEN a ELSE b
MathMin(a, b) == IF a = NaN \/ b = NaN THEN NaN ELSE IF a <= b THEN a ELSE b

(* --------------------------- price records ---------------------------- *)

\* basePrices of initializeStockPrice, in units of 0.01.
basePrices ==
    [s \in {"AAPL", "MSFT", "GOOGL", "GOOG", "AMZN", "TSLA", "NVDA", "META",
            "NFLX", "BTC-USD", "ETH-USD", "JPM", "JNJ", "V", "PG"} |->
        CASE s = "AAPL" -> 15000
          [] s = "MSFT" -> 30000
          [] s = "GOOGL" -> 250000
          [] s = "GOOG" -> 250000
          [] s = "AMZN" -> 300000
          [] s = "TSLA" -> 80000
          [] s = "NVDA" -> 40000
          [] s = "META" -> 25000
          [] s = "NFLX" -> 40000
          [] s = "BTC-USD" -> 3500000
          [] s = "ETH-USD" -> 200000
          [] s = "JPM" -> 14000
          [] s = "JNJ" -> 16000
          [] s = "V" -> 22000
          [] s = "PG" -> 14000]

\* Property names an object literal inherits from Object.prototype:
\* basePrices[symbol] is then a function or an object, which is truthy and
\* is not a number.
InheritedProperties == {"constructor", "toString", "valueOf", "hasOwnProperty", "__proto__"}

\* symbol.includes('USD')
includesUSD(symbol) == symbol \in {"BTC-USD", "ETH-USD"}

\* The Math.random() draws of one initializeStockPrice call in the main
\* specification, which is about subscriptions: one outcome, a rise with a
\* spread.  The price specification draws from PriceInitDraws.
InitDraws ==
    {[base |-> 75, change |-> 75, high |-> 50, low |-> 50, volume |-> 75]}

\* The Math.random() draws of one price update in the main specification:
\* one outcome, a fall.
TickDraws ==
    {[change |-> 0, volume |-> 75]}

\* The draws of the price specification: every combination of low, middle
\* and high values.
PriceInitDraws ==
    [base : {0, 75}, change : {0, 50, 99}, high : {0, 50}, low : {0, 50}, volume : {0, 75}]

PriceTickDraws == [change : {0, 50, 99}, volume : {0, 75}]

\* initializeStockPrice(symbol) throws a TypeError: symbol.includes (lines
\* 274-275) is not a function for a value that is not a string, and the
\* argument of stockPrices.set (line 263) is evaluated before the call, so no
\* record is stored.
initializeThrows(symbol) == symbol \in NonStrings

\* initializeStockPrice(symbol): the record stored for symbol at time t.
initializeStockPrice(symbol, d, t) ==
    IF symbol \in InheritedProperties
    THEN \* basePrice is not a number: every derived number is NaN
         [id |-> symbol, price |-> NaN, previousClose |-> NaN, change |-> NaN,
          changePercent |-> NaN, dayHigh |-> NaN, dayLow |-> NaN,
          dayVolume |-> d.volume * 500000 + 1000000,
          time |-> t, currency |-> "USD", exchange |-> "NASDAQ"]
    ELSE LET basePrice == IF symbol \in DOMAIN basePrices
                          THEN basePrices[symbol]
                          ELSE d.base * 200 + 5000
             change == ((d.change - 50) * basePrice * 5) \div 10000
             price == MathMax(1, basePrice + change)
         IN [id |-> symbol,
             price |-> price,
             previousClose |-> basePrice,
             change |-> change,
             changePercent |-> (change * 1000) \div basePrice,
             dayHigh |-> price + (price * d.high * 3) \div 10000,
             dayLow |-> price - (price * d.low * 3) \div 10000,
             dayVolume |-> d.volume * 500000 + 1000000,
             time |-> t,
             currency |-> "USD",
             exchange |-> IF includesUSD(symbol) THEN "CRYPTO" ELSE "NASDAQ"]

\* updatedData with the new price as day high and day low (no Math.max /
\* Math.min of lines 307-308).
updatedData_NoRunningRange(currentData, symbol, d, t) ==
    LET volatility == IF includesUSD(symbol) THEN 2 ELSE 1
        newPrice == IF currentData.price = NaN THEN NaN
                    ELSE MathMax(1, currentData.price
                           + (currentData.price * (d.change - 50) * volatility) \div 10000)
        change == IF newPrice = NaN \/ currentData.previousClose = NaN THEN NaN
                  ELSE newPrice - currentData.previousClose
    IN [currentData EXCEPT
          !.price = newPrice,
          !.change = change,
          !.changePercent = IF change = NaN THEN NaN
                            ELSE (change * 1000) \div currentData.previousClose,
          !.dayHigh = newPrice,
          !.dayLow = newPrice,
          !.dayVolume = currentData.dayVolume + d.volume * 100,
          !.time = t]

\* updatedData without the new time stamp of line 310.
updatedData_KeepsTime(currentData, symbol, d, t) ==
    LET volatility == IF includesUSD(symbol) THEN 2 ELSE 1
        newPrice == IF currentData.price = NaN THEN NaN
                    ELSE MathMax(1, currentData.price
                           + (currentData.price * (d.change - 50) * volatility) \div 10000)
        change == IF newPrice = NaN \/ currentData.previousClose = NaN THEN NaN
                  ELSE newPrice - currentData.previousClose
    IN [currentData EXCEPT
          !.price = newPrice,
          !.change = change,
          !.changePercent = IF change = NaN THEN NaN
                            ELSE (change * 1000) \div currentData.previousClose,
          !.dayHigh = MathMax(currentData.dayHigh, newPrice),
          !.dayLow = MathMin(currentData.dayLow, newPrice),
          !.dayVolume = currentData.dayVolume + d.volume * 100]

\* The record updatePrices stores and broadcasts for symbol at time t
\* (updatedData, lines 296-311).
updatedData(currentData, symbol, d, t) ==
    LET volatility == IF includesUSD(symbol) THEN 2 ELSE 1
        newPrice == IF currentData.price = NaN THEN NaN
                    ELSE MathMax(1, currentData.price
                           + (currentData.price * (d.change - 50) * volatility) \div 10000)
        change == IF newPrice = NaN \/ currentData.previousClose = NaN THEN NaN
                  ELSE newPrice - currentData.previousClose
    IN [currentData EXCEPT
          !.price = newPrice,
          !.change = change,
          !.changePercent = IF change = NaN THEN NaN
                            ELSE (change * 1000) \div currentData.previousClose,
          !.dayHigh = MathMax(currentData.dayHigh, newPrice),
          !.dayLow = MathMin(currentData.dayLow, newPrice),
          !.dayVolume = currentData.dayVolume + d.volume * 100,
          !.time = t]

(* ------------------------------- state -------------------------------- *)

VARIABLES
    clients,        \* this.clients: clientId -> [ws, subscribedSymbols]
    activeSymbols,  \* this.activeSymbols
    stockPrices,    \* this.stockPrices: symbol -> record
    readyState,     \* ws.readyState of every connection ("NONE": not accepted yet)
    clientIdOf,     \* the clientId captured by the handlers of a connection
    now,            \* Date.now()
    tickDue,        \* the 2000 ms interval has run out since the last tick
    sent,           \* the ws.send calls of the last handler, in order
    op,             \* the last handler and its input
    requested,      \* history: symbols of the accepted subscribe requests
    disconnected,   \* history: connections whose close or error was handled
    priceUpdateInterval,  \* this.priceUpdateInterval holds a running timer
    listening,      \* this.wss and this.server accept connections
    exited,         \* an exception no handler caught has ended the process
    received        \* observer: for each connection and symbol, the time and
                    \* dayVolume of the last ticker delivered and whether a
                    \* tick sent it (recorded in DeliverySpec only)

vars == <<clients, activeSymbols, stockPrices, readyState, clientIdOf, now,
          tickDue, sent, op, requested, disconnected, priceUpdateInterval, listening,
          exited, received>>

\* One ws.send call (lines 125, 143, 171, 174, 202 and 329): the connection,
\* the message (text is the clientId, the symbol or the error text; data holds
\* the price record of a ticker message) and whether the call threw.
Message(ws, type, text, data) ==
    [ws |-> ws, type |-> type, text |-> text, timestamp |-> now, data |-> data,
     threw |-> FALSE]

Ticker(ws, record) == Message(ws, "ticker", record.id, <<record>>)

\* What a client can send: text that JSON.parse rejects, or an object with a
\* type and, when isArray, a symbols array.
NoSymbols == <<>>

Payloads(Arrays) ==
    {[parsed |-> FALSE, type |-> "", isArray |-> FALSE, symbols |-> NoSymbols]}
    \cup [parsed : {TRUE}, type : {"ping", "bogus"}, isArray : {FALSE}, symbols : {NoSymbols}]
    \cup [parsed : {TRUE}, type : {"subscribe", "unsubscribe"}, isArray : {FALSE},
          symbols : {NoSymbols}]
    \cup [parsed : {TRUE}, type : {"subscribe", "unsubscribe"}, isArray : {TRUE},
          symbols : Arrays]

\* A subscribe message carrying the symbols array arr.
Subscribe(arr) == [parsed |-> TRUE, type |-> "subscribe", isArray |-> TRUE, symbols |-> arr]

\* The messages of the delivery specification: subscribe and unsubscribe
\* messages that carry a symbols array.
DeliveryRequests ==
    {data \in Payloads(SymbolArrays) : data.parsed /\ data.isArray}

\* The last handler: its name, the connection whose event it handled (0 for
\* a timer) and the subscription set its session had when it started.
SubscribedBefore(w) ==
    IF w \in Conns /\ clientIdOf[w] \in DOMAIN clients
    THEN clients[clientIdOf[w]].subscribedSymbols
    ELSE {}

Op(name, w) == [name |-> name, ws |-> w, before |-> SubscribedBefore(w)]

\* new Map()
EmptyMap == [x \in {} |-> x]

\* The state the constructor leaves (lines 12-27): empty maps, timers armed.
Init ==
    /\ clients = EmptyMap
    /\ activeSymbols = {}
    /\ stockPrices = EmptyMap
    /\ readyState = [w \in Conns |-> "NONE"]
    /\ clientIdOf = [w \in Conns |-> ""]
    /\ now = 0
    /\ tickDue = FALSE
    /\ sent = <<>>
    /\ op = [name |-> "constructor", ws |-> 0, before |-> {}]
    /\ requested = {}
    /\ disconnected = {}
    /\ priceUpdateInterval = TRUE
    /\ listening = TRUE
    /\ exited = FALSE
    /\ received = [w \in Conns |-> EmptyMap]

\* Map.set / Map.delete on a function.
MapSet(m, k, v) == [x \in DOMAIN m \cup {k} |-> IF x = k THEN v ELSE m[x]]
MapDelete(m, ks) == [x \in DOMAIN m \ ks |-> m[x]]

(* ------------------------ subscription registry ----------------------- *)

\* recalculateActiveSymbols without the clear() of line 232.
recalculateActiveSymbols_NoClear(cl) ==
    activeSymbols \cup UNION {cl[c].subscribedSymbols : c \in DOMAIN cl}

\* recalculateActiveSymbols (lines 231-238): the value of this.activeSymbols
\* after the call, for the clients table cl.
recalculateActiveSymbols(cl) ==
    UNION {cl[c].subscribedSymbols : c \in DOMAIN cl}

\* handleSubscribe without its second loop: no snapshot is sent.
handleSubscribe_NoSnapshot(clientId, isArray, symbols, draws, ws) ==
    IF clientId \notin DOMAIN clients \/ ~isArray
    THEN /\ UNCHANGED <<clients, activeSymbols, stockPrices, requested>>
         /\ sent' = <<>>
    ELSE /\ clients' = [clients EXCEPT ![clientId].subscribedSymbols = @ \cup Range(symbols)]
         /\ activeSymbols' = activeSymbols \cup Range(symbols)
         /\ stockPrices' = [s \in DOMAIN stockPrices \cup Range(symbols) |->
                              IF s \in DOMAIN stockPrices THEN stockPrices[s]
                              ELSE initializeStockPrice(s, draws[s], now)]
         /\ sent' = <<>>
         /\ requested' = requested \cup Range(symbols)

\* handleSubscribe with a second loop that skips the symbols the session was
\* subscribed to before the message.
handleSubscribe_NewSymbolsOnly(clientId, isArray, symbols, draws, ws) ==
    IF clientId \notin DOMAIN clients \/ ~isArray
    THEN /\ UNCHANGED <<clients, activeSymbols, stockPrices, requested>>
         /\ sent' = <<>>
    ELSE LET client == clients[clientId]
             prices == [s \in DOMAIN stockPrices \cup Range(symbols) |->
                          IF s \in DOMAIN stockPrices THEN stockPrices[s]
                          ELSE initializeStockPrice(s, draws[s], now)]
             IsNew(s) == s \notin client.subscribedSymbols
             new == SelectSeq(symbols, IsNew)
         IN /\ clients' = [clients EXCEPT ![clientId].subscribedSymbols = @ \cup Range(symbols)]
            /\ activeSymbols' = activeSymbols \cup Range(symbols)
            /\ stockPrices' = prices
            /\ sent' = [i \in 1..Len(new) |-> Ticker(client.ws, prices[new[i]])]
            /\ requested' = requested \cup Range(symbols)

\* handleSubscribe that answers a request with a symbols field that is not an
\* array with an error message instead of returning at line 185.
handleSubscribe_ReportsInvalid(clientId, isArray, symbols, draws, ws) ==
    IF clientId \notin DOMAIN clients \/ ~isArray
    THEN /\ UNCHANGED <<clients, activeSymbols, stockPrices, requested>>
         /\ sent' = IF clientId \in DOMAIN clients
                    THEN <<Message(clients[clientId].ws, "error", "Invalid subscribe request", <<>>)>>
                    ELSE <<>>
    ELSE LET client == clients[clientId]
             prices == [s \in DOMAIN stockPrices \cup Range(symbols) |->
                          IF s \in DOMAIN stockPrices THEN stockPrices[s]
                          ELSE initializeStockPrice(s, draws[s], now)]
         IN /\ clients' = [clients EXCEPT ![clientId].subscribedSymbols = @ \cup Range(symbols)]
            /\ activeSymbols' = activeSymbols \cup Range(symbols)
            /\ stockPrices' = prices
            /\ sent' = [i \in 1..Len(symbols) |-> Ticker(client.ws, prices[symbols[i]])]
            /\ requested' = requested \cup Range(symbols)

\* handleSubscribe without the stockPrices.has test of line 193: every symbol
\* of the array gets a new record (a symbol that has one, with the draws of
\* an opening rise).
handleSubscribe_Reinitializes(clientId, isArray, symbols, draws, ws) ==
    IF clientId \notin DOMAIN clients \/ ~isArray
    THEN /\ UNCHANGED <<clients, activeSymbols, stockPrices, requested>>
         /\ sent' = <<>>
    ELSE LET client == clients[clientId]
             again == [base |-> 75, change |-> 75, high |-> 50, low |-> 50, volume |-> 75]
             prices == [s \in DOMAIN stockPrices \cup Range(symbols) |->
                          IF s \notin Range(symbols) THEN stockPrices[s]
                          ELSE initializeStockPrice(
                                   s, IF s \in DOMAIN draws THEN draws[s] ELSE again, now)]
         IN /\ clients' = [clients EXCEPT ![clientId].subscribedSymbols = @ \cup Range(symbols)]
            /\ activeSymbols' = activeSymbols \cup Range(symbols)
            /\ stockPrices' = prices
            /\ sent' = [i \in 1..Len(symbols) |-> Ticker(client.ws, prices[symbols[i]])]
            /\ requested' = requested \cup Range(symbols)

\* handleSubscribe (lines 181-211).  draws gives the Math.random() draws for
\* the symbols that get a record.  Both loops run over the array as sent,
\* repeated entries included.  When initializeStockPrice throws, the first
\* loop ends after lines 189-190 of that entry, the second loop is not
\* reached, and the handler of the connection ws, from which the call came,
\* catches the exception (lines 123-128) and sends the error message.
handleSubscribe(clientId, isArray, symbols, draws, ws) ==
    IF clientId \notin DOMAIN clients \/ ~isArray
    THEN /\ UNCHANGED <<clients, activeSymbols, stockPrices, requested>>
         /\ sent' = <<>>
    ELSE LET client == clients[clientId]
             throwing == {i \in DOMAIN symbols : /\ symbols[i] \notin DOMAIN stockPrices
                                                 /\ initializeThrows(symbols[i])}
             threw == throwing # {}
             last == IF threw THEN CHOOSE i \in throwing : \A j \in throwing : i <= j
                     ELSE Len(symbols)
             added == {symbols[i] : i \in 1..last}
             initialized == {symbols[i] : i \in 1..(IF threw THEN last - 1 ELSE last)}
             prices == [s \in DOMAIN stockPrices \cup initialized |->
                          IF s \in DOMAIN stockPrices
                          THEN stockPrices[s]
                          ELSE initializeStockPrice(s, draws[s], now)]
         IN /\ clients' = [clients EXCEPT ![clientId].subscribedSymbols = @ \cup added]
            /\ activeSymbols' = activeSymbols \cup added
            /\ stockPrices' = prices
            /\ sent' = IF threw
                       THEN <<Message(ws, "error", "Invalid JSON message", <<>>)>>
                       ELSE [i \in 1..Len(symbols) |-> Ticker(client.ws, prices[symbols[i]])]
            /\ requested' = requested \cup Range(symbols)

\* handleUnsubscribe that also deletes the records of the symbols no session
\* is subscribed to any more.
handleUnsubscribe_DeletesRecords(clientId, isArray, symbols) ==
    IF clientId \notin DOMAIN clients \/ ~isArray
    THEN /\ UNCHANGED <<clients, activeSymbols, stockPrices, requested>>
         /\ sent' = <<>>
    ELSE LET cl == [clients EXCEPT ![clientId].subscribedSymbols = @ \ Range(symbols)]
         IN /\ clients' = cl
            /\ activeSymbols' = recalculateActiveSymbols(cl)
            /\ stockPrices' = MapDelete(stockPrices, DOMAIN stockPrices \ recalculateActiveSymbols(cl))
            /\ sent' = <<>>
            /\ UNCHANGED requested

\* handleUnsubscribe that takes the symbols of the request out of
\* activeSymbols instead of recomputing it over all sessions (line 222).
handleUnsubscribe_DeactivatesRequested(clientId, isArray, symbols) ==
    IF clientId \notin DOMAIN clients \/ ~isArray
    THEN /\ UNCHANGED <<clients, activeSymbols, stockPrices, requested>>
         /\ sent' = <<>>
    ELSE /\ clients' = [clients EXCEPT ![clientId].subscribedSymbols = @ \ Range(symbols)]
         /\ activeSymbols' = activeSymbols \ Range(symbols)
         /\ sent' = <<>>
         /\ UNCHANGED <<stockPrices, requested>>

\* handleUnsubscribe (lines 213-223).
handleUnsubscribe(clientId, isArray, symbols) ==
    IF clientId \notin DOMAIN clients \/ ~isArray
    THEN /\ UNCHANGED <<clients, activeSymbols, stockPrices, requested>>
         /\ sent' = <<>>
    ELSE LET cl == [clients EXCEPT ![clientId].subscribedSymbols = @ \ Range(symbols)]
         IN /\ clients' = cl
            /\ activeSymbols' = recalculateActiveSymbols(cl)
            /\ sent' = <<>>
            /\ UNCHANGED <<stockPrices, requested>>

\* handleClientDisconnect without the delete of line 226.
handleClientDisconnect_KeepsSession(clientId) ==
    /\ clients' = clients
    /\ activeSymbols' = recalculateActiveSymbols(clients)
    /\ sent' = <<>>
    /\ UNCHANGED <<stockPrices, requested>>

\* handleClientDisconnect (lines 225-229).
handleClientDisconnect(clientId) ==
    LET cl == MapDelete(clients, {clientId})
    IN /\ clients' = cl
       /\ activeSymbols' = recalculateActiveSymbols(cl)
       /\ sent' = <<>>
       /\ UNCHANGED <<stockPrices, requested>>

\* handleClientMessage without the default case of lines 173-177: a message
\* of an unrecognized type is dropped.
handleClientMessage_DropsUnknown(clientId, data, draws, ws) ==
    IF clientId \notin DOMAIN clients
    THEN /\ UNCHANGED <<clients, activeSymbols, stockPrices, requested>>
         /\ sent' = <<>>
    ELSE CASE data.type = "subscribe" ->
                handleSubscribe(clientId, data.isArray, data.symbols, draws, ws)
           [] data.type = "unsubscribe" ->
                handleUnsubscribe(clientId, data.isArray, data.symbols)
           [] data.type = "ping" ->
                /\ sent' = <<Message(clients[clientId].ws, "pong", "", <<>>)>>
                /\ UNCHANGED <<clients, activeSymbols, stockPrices, requested>>
           [] OTHER ->
                /\ sent' = <<>>
                /\ UNCHANGED <<clients, activeSymbols, stockPrices, requested>>

\* handleClientMessage whose ping case answers with the error message of the
\* default case.
handleClientMessage_NoPong(clientId, data, draws, ws) ==
    IF clientId \notin DOMAIN clients
    THEN /\ UNCHANGED <<clients, activeSymbols, stockPrices, requested>>
         /\ sent' = <<>>
    ELSE CASE data.type = "subscribe" ->
                handleSubscribe(clientId, data.isArray, data.symbols, draws, ws)
           [] data.type = "unsubscribe" ->
                handleUnsubscribe(clientId, data.isArray, data.symbols)
           [] OTHER ->
                /\ sent' = <<Message(clients[clientId].ws, "error", "Unknown message type", <<>>)>>
                /\ UNCHANGED <<clients, activeSymbols, stockPrices, requested>>

\* handleClientMessage (lines 157-179), after JSON.parse succeeded.
handleClientMessage(clientId, data, draws, ws) ==
    IF clientId \notin DOMAIN clients
    THEN /\ UNCHANGED <<clients, activeSymbols, stockPrices, requested>>
         /\ sent' = <<>>
    ELSE CASE data.type = "subscribe" ->
                handleSubscribe(clientId, data.isArray, data.symbols, draws, ws)
           [] data.type = "unsubscribe" ->
                handleUnsubscribe(clientId, data.isArray, data.symbols)
           [] data.type = "ping" ->
                /\ sent' = <<Message(clients[clientId].ws, "pong", "", <<>>)>>
                /\ UNCHANGED <<clients, activeSymbols, stockPrices, requested>>
           [] OTHER ->
                /\ sent' = <<Message(clients[clientId].ws, "error",
                                     "Unknown message type", <<>>)>>
                /\ UNCHANGED <<clients, activeSymbols, stockPrices, requested>>

(* ----------------------------- connections ---------------------------- *)

\* generateClientId (lines 359-361): Math.random() decides, and nothing
\* keeps the result apart from the identifiers in use.  Identifiers that no
\* session and no handler holds are interchangeable: the first of them in
\* ClientOrder stands for all.
generateClientId ==
    LET held == DOMAIN clients \cup {clientIdOf[w] : w \in Conns}
        free == {i \in DOMAIN ClientOrder : ClientOrder[i] \notin held}
    IN (ClientIds \cap held)
       \cup {ClientOrder[i] : i \in {j \in free : \A k \in free : j <= k}}

\* The results of generateClientId that no session and no handler holds.
FreshClientIds ==
    {c \in generateClientId : c \notin DOMAIN clients \cup {clientIdOf[w] : w \in Conns}}

\* The connection handler without the send of lines 143-148.
Accept_NoAcknowledgement(w, ids) ==
    /\ ~exited
    /\ listening
    /\ readyState[w] = "NONE"
    /\ \A v \in Conns : v < w => readyState[v] # "NONE"
    /\ \E clientId \in ids :
         /\ clients' = MapSet(clients, clientId, [ws |-> w, subscribedSymbols |-> {}])
         /\ clientIdOf' = [clientIdOf EXCEPT ![w] = clientId]
         /\ sent' = <<>>
         /\ op' = Op("connection", w)
    /\ readyState' = [readyState EXCEPT ![w] = "OPEN"]
    /\ UNCHANGED <<activeSymbols, stockPrices, now, tickDue, requested, disconnected, priceUpdateInterval, listening, exited>>

\* wss.on('connection') (lines 109-149): connection w is accepted and
\* generateClientId returns one of ids.
Accept(w, ids) ==
    /\ ~exited
    /\ listening
    /\ readyState[w] = "NONE"
    /\ \A v \in Conns : v < w => readyState[v] # "NONE"
    /\ \E clientId \in ids :
         /\ clients' = MapSet(clients, clientId, [ws |-> w, subscribedSymbols |-> {}])
         /\ clientIdOf' = [clientIdOf EXCEPT ![w] = clientId]
         /\ sent' = <<Message(w, "connection", clientId, <<>>)>>
         /\ op' = Op("connection", w)
    /\ readyState' = [readyState EXCEPT ![w] = "OPEN"]
    /\ UNCHANGED <<activeSymbols, stockPrices, now, tickDue, requested, disconnected, priceUpdateInterval, listening, exited>>

\* ws.on('message') (lines 119-130): connection w delivers payload data.
OnMessage(w, data, InitD) ==
    /\ ~exited
    /\ readyState[w] = "OPEN"
    /\ IF ~data.parsed
       THEN /\ sent' = <<Message(w, "error", "Invalid JSON message", <<>>)>>
            /\ UNCHANGED <<clients, activeSymbols, stockPrices, requested>>
       ELSE \E draws \in [(IF data.type = "subscribe" THEN Range(data.symbols) ELSE {})
                               \ DOMAIN stockPrices -> InitD] :
              handleClientMessage(clientIdOf[w], data, draws, w)
    /\ op' = Op("message", w)
    /\ UNCHANGED <<readyState, clientIdOf, now, tickDue, disconnected, priceUpdateInterval, listening, exited>>

\* ws.on('close') (lines 132-135): the socket is closed when the event fires.
OnClose(w) ==
    /\ ~exited
    /\ readyState[w] \in {"OPEN", "CLOSING"}
    /\ handleClientDisconnect(clientIdOf[w])
    /\ readyState' = [readyState EXCEPT ![w] = "CLOSED"]
    /\ disconnected' = disconnected \cup {w}
    /\ op' = Op("close", w)
    /\ UNCHANGED <<clientIdOf, now, tickDue, priceUpdateInterval, listening, exited>>

\* ws.on('error') (lines 137-140): the socket is on its way down, and its
\* close event is still to come.
OnError(w) ==
    /\ ~exited
    /\ readyState[w] \in {"OPEN", "CLOSING"}
    /\ handleClientDisconnect(clientIdOf[w])
    /\ readyState' = [readyState EXCEPT ![w] = "CLOSING"]
    /\ disconnected' = disconnected \cup {w}
    /\ op' = Op("error", w)
    /\ UNCHANGED <<clientIdOf, now, tickDue, priceUpdateInterval, listening, exited>>

\* The transport of connection w goes down and no event has been handled
\* yet (or none is ever delivered): readyState is no longer OPEN.
ConnectionLost(w) ==
    /\ ~exited
    /\ readyState[w] = "OPEN"
    /\ readyState' = [readyState EXCEPT ![w] = "CLOSING"]
    /\ sent' = <<>>
    /\ op' = Op("lost", w)
    /\ UNCHANGED <<clients, activeSymbols, stockPrices, clientIdOf, now, tickDue,
                   requested, disconnected, priceUpdateInterval, listening, exited>>

\* cleanupConnections that tests readyState === CLOSED instead of !== OPEN: a
\* session whose connection is closing stays in the table.
cleanupConnections_KeepsClosing ==
    LET dead == {c \in DOMAIN clients : readyState[clients[c].ws] = "CLOSED"}
        cl == MapDelete(clients, dead)
    IN /\ ~exited
       /\ clients' = cl
       /\ activeSymbols' = IF dead # {} THEN recalculateActiveSymbols(cl)
                           ELSE activeSymbols
       /\ sent' = <<>>
       /\ op' = Op("sweep", 0)
       /\ UNCHANGED <<stockPrices, readyState, clientIdOf, now, tickDue, requested,
                      disconnected, priceUpdateInterval, listening, exited>>

\* cleanupConnections that visits the sessions and removes none.
cleanupConnections_RemovesNone ==
    /\ ~exited
    /\ sent' = <<>>
    /\ op' = Op("sweep", 0)
    /\ UNCHANGED <<clients, activeSymbols, stockPrices, readyState, clientIdOf, now,
                   tickDue, requested, disconnected, priceUpdateInterval, listening, exited>>

\* cleanupConnections (lines 344-357), run by the 30 s timer of line 152.
cleanupConnections ==
    LET dead == {c \in DOMAIN clients : readyState[clients[c].ws] # "OPEN"}
        cl == MapDelete(clients, dead)
    IN /\ ~exited
       /\ clients' = cl
       /\ activeSymbols' = IF dead # {} THEN recalculateActiveSymbols(cl)
                           ELSE activeSymbols
       /\ sent' = <<>>
       /\ op' = Op("sweep", 0)
       /\ UNCHANGED <<stockPrices, readyState, clientIdOf, now, tickDue, requested,
                      disconnected, priceUpdateInterval, listening, exited>>

(* ------------------------------ the tick ------------------------------ *)

\* Every order in which a Set with the elements S can be iterated.
Orders(S) ==
    {f \in [1..Cardinality(S) -> S] : \A i, j \in DOMAIN f : i # j => f[i] # f[j]}

\* broadcastToClients without the subscription test of line 328: the record
\* goes to every session with an open connection.
broadcastToClients_ToAllOpen(cl, tickerData, throws) ==
    LET open == {c \in DOMAIN cl : readyState[cl[c].ws] = "OPEN"}
        thrown == {c \in open : <<c, tickerData.id>> \in throws}
        IsOpen(c) == c \in open
        to == SelectSeq(ClientOrder, IsOpen)
    IN [clients |-> MapDelete(cl, thrown),
        sent |-> [i \in 1..Len(to) |->
                    [Ticker(cl[to[i]].ws, tickerData) EXCEPT !.threw = to[i] \in thrown]]]

\* broadcastToClients without the try/catch of lines 327-335: the first send
\* that throws ends the forEach, and the session of the recipient stays.
broadcastToClients_AbortsOnThrow(cl, tickerData, throws) ==
    LET open == {c \in DOMAIN cl : /\ tickerData.id \in cl[c].subscribedSymbols
                                   /\ readyState[cl[c].ws] = "OPEN"}
        thrown == {c \in open : <<c, tickerData.id>> \in throws}
        IsOpen(c) == c \in open
        to == SelectSeq(ClientOrder, IsOpen)
        reached == {i \in 1..Len(to) : \A j \in 1..(i - 1) : to[j] \notin thrown}
    IN [clients |-> cl,
        sent |-> [i \in 1..Cardinality(reached) |->
                    [Ticker(cl[to[i]].ws, tickerData) EXCEPT !.threw = to[i] \in thrown]]]

\* broadcastToClients (lines 318-342) on the clients table cl: throws is the
\* set of <<clientId, symbol>> whose ws.send throws.  Gives the table it
\* leaves and the send calls it made.  The ws.send of line 329 is the only
\* one taken to throw: it is the one the code guards with its own handler.
broadcastToClients(cl, tickerData, throws) ==
    LET open == {c \in DOMAIN cl : /\ tickerData.id \in cl[c].subscribedSymbols
                                   /\ readyState[cl[c].ws] = "OPEN"}
        thrown == {c \in open : <<c, tickerData.id>> \in throws}
        IsOpen(c) == c \in open
        to == SelectSeq(ClientOrder, IsOpen)
    IN [clients |-> MapDelete(cl, thrown),
        sent |-> [i \in 1..Len(to) |->
                    [Ticker(cl[to[i]].ws, tickerData) EXCEPT !.threw = to[i] \in thrown]]]

\* The loop body of updatePrices without the broadcast of line 314.
updateSymbol_NoBroadcast(st, symbol, idraws, tdraws, throws) ==
    IF symbol \notin DOMAIN st.stockPrices
    THEN IF initializeThrows(symbol)
         THEN [st EXCEPT !.threw = TRUE]
         ELSE [st EXCEPT !.stockPrices =
                  MapSet(@, symbol, initializeStockPrice(symbol, idraws[symbol], now))]
    ELSE [st EXCEPT !.stockPrices =
             MapSet(@, symbol, updatedData(st.stockPrices[symbol], symbol, tdraws[symbol], now))]

\* The body of the forEach of updatePrices (lines 289-315) for one symbol,
\* on the state st = [clients, stockPrices, sent, threw]; threw: the
\* initializeStockPrice of line 292 threw.
updateSymbol(st, symbol, idraws, tdraws, throws) ==
    IF symbol \notin DOMAIN st.stockPrices
    THEN IF initializeThrows(symbol)
         THEN [st EXCEPT !.threw = TRUE]
         ELSE [st EXCEPT !.stockPrices =
                  MapSet(@, symbol, initializeStockPrice(symbol, idraws[symbol], now))]
    ELSE LET data == updatedData(st.stockPrices[symbol], symbol, tdraws[symbol], now)
             b == broadcastToClients(st.clients, data, throws)
         IN [clients |-> b.clients,
             stockPrices |-> MapSet(st.stockPrices, symbol, data),
             sent |-> st.sent \o b.sent,
             threw |-> FALSE]

RECURSIVE updateLoop(_, _, _, _, _, _)
updateLoop(st, order, i, idraws, tdraws, throws) ==
    IF i > Len(order) \/ st.threw
    THEN st
    ELSE updateLoop(updateSymbol(st, order[i], idraws, tdraws, throws),
                    order, i + 1, idraws, tdraws, throws)

\* updatePrices (lines 286-316), run by the 2 s timer of line 281.  An
\* exception of initializeStockPrice leaves the forEach and the timer
\* callback (lines 281-283); nothing catches it there, and the process ends.
updatePrices(InitD, TickD) ==
    /\ ~exited
    /\ priceUpdateInterval
    /\ tickDue
    /\ \E order \in Orders(activeSymbols) :
       \E idraws \in [activeSymbols \ DOMAIN stockPrices -> InitD] :
       \E tdraws \in [activeSymbols \cap DOMAIN stockPrices -> TickD] :
       \E throws \in SUBSET {<<c, s>> \in (DOMAIN clients) \X activeSymbols :
                                /\ s \in clients[c].subscribedSymbols
                                /\ readyState[clients[c].ws] = "OPEN"} :
         LET st == updateLoop([clients |-> clients, stockPrices |-> stockPrices,
                               sent |-> <<>>, threw |-> FALSE],
                              order, 1, idraws, tdraws, throws)
         IN /\ clients' = st.clients
            /\ stockPrices' = st.stockPrices
            /\ sent' = st.sent
            /\ exited' = st.threw
            /\ op' = Op("tick", 0)
    /\ tickDue' = FALSE
    /\ UNCHANGED <<activeSymbols, readyState, clientIdOf, now, requested, disconnected, priceUpdateInterval, listening>>

\* Time passes: the clock moves on, up to the reading last, and the tick
\* interval, if its timer is running, runs out.
TimePasses(last) ==
    /\ ~exited
    /\ ~tickDue
    /\ now < last
    /\ now' = now + 1
    /\ tickDue' = priceUpdateInterval
    /\ sent' = <<>>
    /\ op' = Op("clock", 0)
    /\ UNCHANGED <<clients, activeSymbols, stockPrices, readyState, clientIdOf,
                   requested, disconnected, priceUpdateInterval, listening, exited>>

(* --------------------------- specifications --------------------------- *)

\* stop() (lines 374-380): clears the price timer and closes the WebSocket
\* server and the HTTP server, which stop accepting connections; with ws 8
\* the connections already accepted stay open.  The timer of the sweep
\* (lines 152-154) has no handle and is not cleared.
stop ==
    /\ ~exited
    /\ listening
    /\ priceUpdateInterval' = FALSE
    /\ tickDue' = FALSE
    /\ listening' = FALSE
    /\ sent' = <<>>
    /\ op' = Op("stop", 0)
    /\ UNCHANGED <<clients, activeSymbols, stockPrices, readyState, clientIdOf, now,
                   requested, disconnected, exited>>

\* The tickers of the send calls log that were delivered on connection w (the
\* send did not throw).
Tickers(log, w) ==
    {i \in DOMAIN log : log[i].ws = w /\ log[i].type = "ticker" /\ ~log[i].threw}

\* What the observer of the connections holds after the send calls log, made
\* by a tick or by a message handler, when it held rec before.
Receive(rec, log, tick) ==
    [w \in Conns |->
       LET got == {log[i].text : i \in Tickers(log, w)}
       IN [s \in DOMAIN rec[w] \cup got |->
             IF s \in got
             THEN LET last == CHOOSE i \in Tickers(log, w) :
                                 /\ log[i].text = s
                                 /\ \A j \in Tickers(log, w) : log[j].text = s => j <= i
                  IN [time |-> log[last].data[1].time,
                      dayVolume |-> log[last].data[1].dayVolume,
                      tick |-> tick]
             ELSE rec[w][s]]]

Next ==
    \/ \E w \in Conns : Accept(w, generateClientId) /\ UNCHANGED received
    \/ \E w \in Conns : \E data \in Payloads(SymbolArrays) : OnMessage(w, data, InitDraws) /\ UNCHANGED received
    \/ \E w \in Conns : OnClose(w) /\ UNCHANGED received
    \/ \E w \in Conns : OnError(w) /\ UNCHANGED received
    \/ \E w \in Conns : ConnectionLost(w) /\ UNCHANGED received
    \/ cleanupConnections /\ UNCHANGED received
    \/ updatePrices(InitDraws, TickDraws) /\ UNCHANGED received
    \/ TimePasses(MaxTime) /\ UNCHANGED received

Spec == Init /\ [][Next]_vars

\* The runs of Spec in which the sweep keeps firing: its timer (line 152) is
\* started by the constructor and no code clears it, so a sweep that has work
\* to do is eventually run.  No close or error event is required to happen.
SweepSpec == Init /\ [][Next]_vars /\ WF_vars(cleanupConnections /\ UNCHANGED received)

\* The runs in which generateClientId never repeats an identifier.
NextUniqueIds ==
    \/ \E w \in Conns : Accept(w, FreshClientIds) /\ UNCHANGED received
    \/ \E w \in Conns : \E data \in Payloads(SymbolArrays) : OnMessage(w, data, InitDraws) /\ UNCHANGED received
    \/ \E w \in Conns : OnClose(w) /\ UNCHANGED received
    \/ \E w \in Conns : OnError(w) /\ UNCHANGED received
    \/ \E w \in Conns : ConnectionLost(w) /\ UNCHANGED received
    \/ cleanupConnections /\ UNCHANGED received
    \/ updatePrices(InitDraws, TickDraws) /\ UNCHANGED received
    \/ TimePasses(MaxTime) /\ UNCHANGED received

UniqueIdSpec == Init /\ [][NextUniqueIds]_vars

\* The runs with a shutdown: stop() is called at some point of a run of Next.
\* After it no connection is accepted and no tick runs, so the runs of Next
\* cover what the other handlers do to sessions, subscriptions and records.
NextShutdown ==
    \/ Next
    \/ stop /\ UNCHANGED received

ShutdownSpec == Init /\ [][NextShutdown]_vars

\* Last reading of the clock in the delivery specification, which follows a
\* connection over one tick more than the other specifications.
DeliveryTime == MaxTime + 1

\* The Math.random() draws of one price update in the delivery
\* specification: a fall without volume and a rise with volume.
DeliveryTickDraws ==
    {[change |-> 0, volume |-> 0], [change |-> 99, volume |-> 75]}

\* The runs with the observer of delivered tickers: one client subscribes,
\* unsubscribes and closes while the clock and the ticks go on, and sends of
\* a tick may throw.
NextDelivery ==
    \/ Accept(1, FreshClientIds) /\ UNCHANGED received
    \/ \E data \in DeliveryRequests :
          OnMessage(1, data, InitDraws) /\ received' = Receive(received, sent', FALSE)
    \/ OnClose(1) /\ UNCHANGED received
    \/ updatePrices(InitDraws, DeliveryTickDraws) /\ received' = Receive(received, sent', TRUE)
    \/ TimePasses(DeliveryTime) /\ UNCHANGED received

DeliverySpec == Init /\ [][NextDelivery]_vars

\* The price specification: one client of the server subscribes to one symbol
\* of PriceSymbols, with every combination of the draws, and ticks follow.
NextPrice ==
    \/ \E w \in Conns : Accept(w, FreshClientIds) /\ UNCHANGED received
    \/ \E w \in Conns : \E arr \in PriceSymbolArrays :
          /\ stockPrices = EmptyMap
          /\ OnMessage(w, Subscribe(arr), PriceInitDraws)
          /\ UNCHANGED received
    \/ updatePrices(PriceInitDraws, PriceTickDraws) /\ UNCHANGED received
    \/ TimePasses(MaxTime) /\ UNCHANGED received

PriceSpec == Init /\ [][NextPrice]_vars

\* The subscribe and unsubscribe messages whose symbols array may hold an
\* element that is not a string.
NonStringRequests ==
    {data \in Payloads(NonStringArrays) : data.parsed /\ data.isArray}

\* The specification of such requests: clients with identifiers of their
\* own connect, send them and close, and ticks follow.
NextNonString ==
    \/ \E w \in Conns : Accept(w, FreshClientIds) /\ UNCHANGED received
    \/ \E w \in Conns : \E data \in NonStringRequests :
          OnMessage(w, data, InitDraws) /\ UNCHANGED received
    \/ \E w \in Conns : OnClose(w) /\ UNCHANGED received
    \/ updatePrices(InitDraws, TickDraws) /\ UNCHANGED received
    \/ TimePasses(MaxTime) /\ UNCHANGED received

NonStringSpec == Init /\ [][NextNonString]_vars

(* ------------------------------- claims ------------------------------- *)

\* The sessions subscribed to symbol s in the clients table cl.
SubscribersOf(cl, s) == {c \in DOMAIN cl : s \in cl[c].subscribedSymbols}

\* The union of the subscription sets of the sessions of cl.
Wanted(cl) == {s \in Symbols \cup PriceSymbols : SubscribersOf(cl, s) # {}}

\* The send calls of log made on connection w for symbol s that did not throw.
Delivered(log, w, s) ==
    {i \in DOMAIN log : log[i].ws = w /\ log[i].text = s /\ log[i].type = "ticker"
                        /\ ~log[i].threw}

\* The send calls of log on connection w for symbol s, thrown or not.
Attempted(log, w, s) ==
    {i \in DOMAIN log : log[i].ws = w /\ log[i].text = s /\ log[i].type = "ticker"}

\* C1: in every reachable state activeSymbols is the union of the
\* subscription sets of the sessions in the clients table (checked in the
\* runs without repeated identifiers: a tick with a throwing send breaks it).
C1_ActiveSymbolsIsUnion == activeSymbols = Wanted(clients)

\* C2: a tick sends a ticker for symbol s on a connection only if a session
\* of the clients table holds that connection, is subscribed to s and has not
\* been removed earlier in the same tick (no earlier send to it threw).
C2_TickSendsOnlyToSubscribers ==
    [][op'.name = "tick" =>
         \A i \in DOMAIN sent' :
            /\ sent'[i].type = "ticker"
            /\ \E c \in DOMAIN clients :
                  /\ clients[c].ws = sent'[i].ws
                  /\ sent'[i].text \in clients[c].subscribedSymbols
            /\ \A j \in DOMAIN sent' :
                  (j < i /\ sent'[j].ws = sent'[i].ws) => ~sent'[j].threw]_vars

\* C2 witness: a tick has sent a ticker for a symbol while another session
\* with an open connection, not subscribed to that symbol, is in the table.
C2_Witness ==
    /\ op.name = "tick"
    /\ \E i \in DOMAIN sent : \E c \in DOMAIN clients :
          /\ ~sent[i].threw
          /\ clients[c].ws # sent[i].ws
          /\ readyState[clients[c].ws] = "OPEN"
          /\ sent[i].text \notin clients[c].subscribedSymbols

C4_TickAdvancesOnlyWantedSymbols ==
    [][op'.name = "tick" =>
         \A s \in DOMAIN stockPrices :
            stockPrices'[s] # stockPrices[s] =>
               \E c \in SubscribersOf(clients, s) :
                  \/ c \in DOMAIN clients'
                  \/ Attempted(sent', clients[c].ws, s) # {}]_vars

\* The number of entries of the array arr that are s.
Occurrences(arr, s) == Cardinality({i \in DOMAIN arr : arr[i] = s})

\* The connections other than w on which log holds a send.
OthersSent(log, w) == {log[i].ws : i \in DOMAIN log} \ {w}

SessionsOf(cl, w) == {c \in DOMAIN cl : cl[c].ws = w}

\* C7: the close handler and the error handler of a connection both leave the
\* table without the session of the connection's identifier and activeSymbols
\* as the union over the remaining sessions, change no record and send
\* nothing; from then on no session holds the connection and no tick sends a
\* message on it.
C7_DisconnectRemovesClient ==
    /\ [][op'.name \in {"close", "error"} =>
            /\ clients' = MapDelete(clients, {clientIdOf[op'.ws]})
            /\ activeSymbols' = Wanted(clients')
            /\ stockPrices' = stockPrices
            /\ sent' = <<>>
            /\ SessionsOf(clients', op'.ws) = {}
            /\ op'.ws \in disconnected']_vars
    /\ [](\A w \in disconnected : SessionsOf(clients, w) = {})
    /\ [][op'.name = "tick" => \A i \in DOMAIN sent' : sent'[i].ws \notin disconnected]_vars

\* C7 witness: a tick has sent tickers after the close or error of a
\* connection was handled.
C7_Witness ==
    /\ op.name = "tick"
    /\ disconnected # {}
    /\ sent # <<>>

\* The symbols the session of identifier c has in table cl.
SymbolsOf(cl, c) == IF c \in DOMAIN cl THEN cl[c].subscribedSymbols ELSE {}

\* C8: when a message, a close or an error takes a symbol away from a session,
\* the symbol is in activeSymbols afterwards exactly if another session of the
\* table is subscribed to it, and its record is in the price table, unchanged.
C8_LastUnsubscribeDeactivates ==
    [][op'.name \in {"message", "close", "error"} =>
         \A s \in SymbolsOf(clients, clientIdOf[op'.ws]) \ SymbolsOf(clients', clientIdOf[op'.ws]) :
            /\ s \in activeSymbols' <=> SubscribersOf(clients', s) # {}
            /\ s \in DOMAIN stockPrices
            /\ s \in DOMAIN stockPrices'
            /\ stockPrices'[s] = stockPrices[s]]_vars

\* C8 witness: a message has taken two symbols away from its session; one is
\* out of activeSymbols with its record kept, the other is still active
\* because another session is subscribed to it.
C8_Witness ==
    /\ op.name = "message"
    /\ clientIdOf[op.ws] \in DOMAIN clients
    /\ \E s, u \in op.before \ clients[clientIdOf[op.ws]].subscribedSymbols :
          /\ s \notin activeSymbols
          /\ s \in DOMAIN stockPrices
          /\ u \in activeSymbols
          /\ SubscribersOf(clients, u) # {}

C10_PriceWithinDayRange ==
    \A s \in DOMAIN stockPrices :
       /\ Le(stockPrices[s].dayLow, stockPrices[s].price)
       /\ Le(stockPrices[s].price, stockPrices[s].dayHigh)
       /\ Gt(stockPrices[s].price, 0)

\* a <= b for two values of one field of a record in successive states: two
\* numbers in order, or the field is NaN in both.
NotDecreased(a, b) == (a = NaN /\ b = NaN) \/ Le(a, b)

\* C11: in every step and for every symbol with a record, the record stays,
\* dayHigh does not decrease, dayLow does not increase, dayVolume does not
\* decrease and previousClose does not change.
C11_DayRangeOnlyWidens ==
    [][\A s \in DOMAIN stockPrices :
         /\ s \in DOMAIN stockPrices'
         /\ NotDecreased(stockPrices[s].dayHigh, stockPrices'[s].dayHigh)
         /\ NotDecreased(stockPrices'[s].dayLow, stockPrices[s].dayLow)
         /\ stockPrices[s].dayVolume <= stockPrices'[s].dayVolume
         /\ stockPrices'[s].previousClose = stockPrices[s].previousClose]_vars

\* C11 witness: a tick has moved a price below its previous close to a new
\* day low while the day high stayed above it, and the volume has grown.
C11_Witness ==
    /\ op.name = "tick"
    /\ \E i \in DOMAIN sent :
          LET r == sent[i].data[1]
          IN /\ stockPrices[r.id] = r
             /\ Gt(r.dayHigh, r.price)
             /\ r.dayLow = r.price
             /\ Gt(r.previousClose, r.price)
             /\ r.dayVolume > 1000000 + 75 * 500000

\* The sends of log on connection w that threw.
Thrown(log, w) == {i \in DOMAIN log : log[i].ws = w /\ log[i].threw}

\* C12: in a tick, a session whose send threw is out of the table afterwards;
\* every other session is kept as it was; each session with an open
\* connection is sent every symbol of its set exactly once, except the
\* symbols processed after a send to it threw; and the record of every active
\* symbol is advanced by the tick.
C12_SendFailureIsContained ==
    [][op'.name = "tick" =>
         /\ \A i \in DOMAIN sent' : sent'[i].threw => SessionsOf(clients', sent'[i].ws) = {}
         /\ \A c \in DOMAIN clients :
               /\ Thrown(sent', clients[c].ws) = {} =>
                     c \in DOMAIN clients' /\ clients'[c] = clients[c]
               /\ readyState[clients[c].ws] = "OPEN" =>
                     \A s \in clients[c].subscribedSymbols :
                        \/ Cardinality(Attempted(sent', clients[c].ws, s)) = 1
                        \/ /\ Attempted(sent', clients[c].ws, s) = {}
                           /\ Thrown(sent', clients[c].ws) # {}
         /\ \A s \in activeSymbols \cap DOMAIN stockPrices :
               \E d \in TickDraws : stockPrices'[s] = updatedData(stockPrices[s], s, d, now)]_vars

\* C12 witness: in a tick the send of a symbol to one session threw, the same
\* symbol then went to another session, a further symbol was sent after it,
\* and the first session is out of the table.
C12_Witness ==
    /\ op.name = "tick"
    /\ \E i, j, k \in DOMAIN sent :
          /\ i < j /\ j < k
          /\ sent[i].threw /\ ~sent[j].threw /\ ~sent[k].threw
          /\ sent[i].text = sent[j].text
          /\ sent[i].ws # sent[j].ws
          /\ sent[k].text # sent[i].text
          /\ SessionsOf(clients, sent[i].ws) = {}
          /\ SessionsOf(clients, sent[j].ws) # {}

\* The messages that are malformed JSON or carry an unrecognized type.
ProtocolErrors == {data \in Payloads(SymbolArrays) : ~data.parsed \/ data.type = "bogus"}

\* The state in which the last handler was a message on connection w that was
\* answered with an error message.
ErrorAnswered(w) ==
    /\ op.name = "message" /\ op.ws = w
    /\ Len(sent) = 1 /\ sent[1].type = "error" /\ sent[1].ws = w

\* C13: a malformed or unrecognized message on the connection of a session of
\* the table sends one error message on that connection and nothing else,
\* changes no session, no subscription set, neither activeSymbols nor a
\* record, and leaves the connection open; a subscribe that follows it adds
\* its symbols to the session and sends one snapshot per entry.
C13_ProtocolErrorIsReported ==
    /\ [][\A w \in Conns : \A data \in ProtocolErrors :
            (OnMessage(w, data, InitDraws) /\ SessionsOf(clients, w) # {}) =>
               /\ Len(sent') = 1
               /\ sent'[1].type = "error"
               /\ sent'[1].ws = w
               /\ ~sent'[1].threw
               /\ clients' = clients
               /\ activeSymbols' = activeSymbols
               /\ stockPrices' = stockPrices
               /\ readyState'[w] = "OPEN"
               /\ SessionsOf(clients', w) = SessionsOf(clients, w)]_vars
    /\ [][\A w \in Conns : \A arr \in SymbolArrays :
            (/\ ErrorAnswered(w)
             /\ SessionsOf(clients, w) # {}
             /\ OnMessage(w, Subscribe(arr), InitDraws)) =>
               /\ clients'[clientIdOf[w]].subscribedSymbols =
                     clients[clientIdOf[w]].subscribedSymbols \cup Range(arr)
               /\ Range(arr) \subseteq activeSymbols'
               /\ Len(sent') = Len(arr)
               /\ \A i \in DOMAIN sent' :
                     /\ sent'[i].type = "ticker" /\ sent'[i].ws = w
                     /\ sent'[i].data = <<stockPrices'[arr[i]]>>]_vars

\* C13 witness: a message on the connection of a subscribed session has just
\* been answered with an error message, with a second session in the table.
C13_Witness ==
    \E w \in Conns :
       /\ ErrorAnswered(w)
       /\ SessionsOf(clients, w) # {}
       /\ clients[clientIdOf[w]].subscribedSymbols # {}
       /\ Cardinality(DOMAIN clients) = 2

\* The subscribe messages of the model, with and without a symbols array.
SubscribeRequests == {data \in Payloads(SymbolArrays) : data.parsed /\ data.type = "subscribe"}

\* C14: a subscribe message whose identifier has no session, or whose symbols
\* field is missing or not an array, sends nothing and changes neither the
\* table of sessions, nor activeSymbols, nor a record; the connection of the
\* sender stays open.
C14_InvalidSubscribeIsSilent ==
    [][\A w \in Conns : \A data \in SubscribeRequests :
         (/\ OnMessage(w, data, InitDraws)
          /\ (clientIdOf[w] \notin DOMAIN clients \/ ~data.isArray)) =>
            /\ sent' = <<>>
            /\ clients' = clients
            /\ activeSymbols' = activeSymbols
            /\ stockPrices' = stockPrices
            /\ requested' = requested
            /\ readyState' = readyState]_vars

\* C14 witness: a message was handled silently on an open connection whose
\* identifier has no session (a send to it threw in a tick), while another
\* session keeps its subscriptions.
C14_Witness ==
    /\ op.name = "message"
    /\ readyState[op.ws] = "OPEN"
    /\ clientIdOf[op.ws] \notin DOMAIN clients
    /\ sent = <<>>
    /\ \E c \in DOMAIN clients : clients[c].subscribedSymbols # {}

\* The state in which the last handler was a message on connection w that was
\* answered with one pong message.
PongAnswered(w) ==
    /\ op.name = "message" /\ op.ws = w
    /\ Len(sent) = 1 /\ sent[1].type = "pong" /\ sent[1].ws = w

\* C15: a ping message on the connection of a session of the table sends one
\* pong on that connection, stamped with the current time, sends nothing else
\* and changes no session, no subscription set, neither activeSymbols nor a
\* record.
C15_PingIsAnsweredWithPong ==
    [][\A w \in Conns :
         (/\ OnMessage(w, [parsed |-> TRUE, type |-> "ping", isArray |-> FALSE,
                           symbols |-> NoSymbols], InitDraws)
          /\ SessionsOf(clients, w) # {}) =>
            /\ Len(sent') = 1
            /\ sent'[1].type = "pong"
            /\ sent'[1].ws = w
            /\ sent'[1].timestamp = now
            /\ ~sent'[1].threw
            /\ clients' = clients
            /\ activeSymbols' = activeSymbols
            /\ stockPrices' = stockPrices]_vars

\* C15 witness: a pong stamped with a time after the start has been sent to a
\* subscribed session while a second session is in the table.
C15_Witness ==
    \E w \in Conns :
       /\ PongAnswered(w)
       /\ sent[1].timestamp = now /\ now > 0
       /\ SessionsOf(clients, w) # {}
       /\ clients[clientIdOf[w]].subscribedSymbols # {}
       /\ Cardinality(DOMAIN clients) = 2

\* The connections accepted so far.
Accepted == {w \in Conns : readyState[w] # "NONE"}

\* C16: the identifiers given to the connections accepted so far are pairwise
\* different, so that each connection whose session was not removed is held
\* by the session of its own identifier.
C16_ClientIdsAreUnique ==
    \A v, w \in Accepted :
       v # w =>
          /\ clientIdOf[v] # clientIdOf[w]
          /\ clientIdOf[v] \in DOMAIN clients => clients[clientIdOf[v]].ws = v

\* C17: the step that accepts a connection registers under its identifier a
\* session of that connection with an empty subscription set and sends on the
\* connection the acknowledgement carrying the identifier, and nothing else;
\* no step sends a message on a connection that has not been accepted, so the
\* acknowledgement is the first message of every connection.
C17_AcknowledgementComesFirst ==
    [][/\ op'.name = "connection" =>
            /\ clientIdOf'[op'.ws] \in DOMAIN clients'
            /\ clients'[clientIdOf'[op'.ws]] = [ws |-> op'.ws, subscribedSymbols |-> {}]
            /\ Len(sent') = 1
            /\ sent'[1].type = "connection"
            /\ sent'[1].ws = op'.ws
            /\ sent'[1].text = clientIdOf'[op'.ws]
       /\ \A i \in DOMAIN sent' :
             readyState[sent'[i].ws] = "NONE" =>
                op'.name = "connection" /\ sent'[i].type = "connection"]_vars

\* C17 witness: the second connection has just been accepted and acknowledged
\* after a tick sent tickers to the first, whose session is subscribed.
C17_Witness ==
    /\ op.name = "connection" /\ op.ws = 2
    /\ Len(sent) = 1 /\ sent[1].type = "connection" /\ sent[1].ws = 2
    /\ clientIdOf[2] \in DOMAIN clients
    /\ clients[clientIdOf[2]].subscribedSymbols = {}
    /\ activeSymbols # {}
    /\ now > 0 /\ ~tickDue

\* C18: after a sweep every session of the table has an open connection, and
\* every session whose connection was open before the sweep is in the table
\* with the same subscription set.
C18_SweepRemovesExactlyTheDead ==
    [][op'.name = "sweep" =>
         /\ \A c \in DOMAIN clients' : readyState'[clients'[c].ws] = "OPEN"
         /\ \A c \in DOMAIN clients :
               readyState[clients[c].ws] = "OPEN" =>
                  c \in DOMAIN clients' /\ clients'[c] = clients[c]]_vars

\* C18 witness: a sweep has removed the session of a connection that is
\* closing (no close or error event was handled for it and no tick has run)
\* and has kept a subscribed session with an open connection.
C18_Witness ==
    /\ op.name = "sweep"
    /\ now = 0
    /\ \E w \in Conns :
          /\ readyState[w] = "CLOSING"
          /\ w \notin disconnected
          /\ clientIdOf[w] \notin DOMAIN clients
    /\ \E c \in DOMAIN clients :
          /\ readyState[clients[c].ws] = "OPEN"
          /\ clients[c].subscribedSymbols # {}

\* C19: after stop() neither updatePrices nor cleanupConnections runs.
C19_NoTimerAfterStop ==
    [][~listening => op'.name \notin {"tick", "sweep"}]_vars

\* The record carried by the ticker log[i].
RecordOf(log, i) == log[i].data[1]

\* C20 as claimed: a ticker a tick delivers on a connection for a symbol
\* carries a time greater than, and a dayVolume not smaller than, the ticker
\* delivered before it on that connection for that symbol.
C20_TickersStrictlyLater ==
    [][op'.name = "tick" =>
         \A w \in Conns : \A i \in Tickers(sent', w) :
            sent'[i].text \in DOMAIN received[w] =>
               /\ RecordOf(sent', i).time > received[w][sent'[i].text].time
               /\ RecordOf(sent', i).dayVolume >= received[w][sent'[i].text].dayVolume]_vars

\* C20 as amended: such a ticker carries the record the tick has just stored,
\* with a time not smaller than that of the ticker before it (greater when
\* the ticker before it came from a tick as well) and a dayVolume not smaller.
C20_TickersNotEarlier ==
    [][op'.name = "tick" =>
         \A w \in Conns : \A i \in Tickers(sent', w) :
            /\ RecordOf(sent', i) = stockPrices'[sent'[i].text]
            /\ RecordOf(sent', i).time = now
            /\ sent'[i].text \in DOMAIN received[w] =>
                  /\ RecordOf(sent', i).time >= received[w][sent'[i].text].time
                  /\ received[w][sent'[i].text].tick =>
                        RecordOf(sent', i).time > received[w][sent'[i].text].time
                  /\ RecordOf(sent', i).dayVolume >= received[w][sent'[i].text].dayVolume]_vars

\* C20 witness: the second tick has delivered to a subscribed session a
\* ticker for a symbol whose snapshot it had received, with a grown volume.
C20_Witness ==
    /\ op.name = "tick"
    /\ now = 2
    /\ \E w \in Conns :
          /\ SessionsOf(clients, w) # {}
          /\ \E i \in Tickers(sent, w) :
                /\ sent[i].text \in clients[clientIdOf[w]].subscribedSymbols
                /\ received[w][sent[i].text].tick
                /\ received[w][sent[i].text].time = 2
                /\ received[w][sent[i].text].dayVolume > 1000000 + 75 * 500000

\* C21: a message on a connection changes the session of no other
\* connection: every session of the table that holds another connection is in
\* the table afterwards with the same subscription set.
C21_MessageChangesOwnSessionOnly ==
    [][op'.name = "message" =>
         \A c \in DOMAIN clients :
            clients[c].ws # op'.ws =>
               c \in DOMAIN clients' /\ clients'[c] = clients[c]]_vars

\* C22: a connection that is no longer open is eventually held by no session
\* of the table, whether or not a close or error event is handled for it; and
\* a tick sends only on connections that are open.
C22_NonOpenSessionIsSwept ==
    /\ \A w \in Conns :
          (readyState[w] \in {"CLOSING", "CLOSED"}) ~> (SessionsOf(clients, w) = {})
    /\ [][op'.name = "tick" =>
             \A i \in DOMAIN sent' : readyState[sent'[i].ws] = "OPEN"]_vars

\* C22 witness: a tick has sent a ticker of a symbol on an open connection
\* and nothing to a session subscribed to the same symbol whose connection is
\* closing, for which no close or error event was handled and which the sweep
\* has still to remove.
C22_Witness ==
    /\ op.name = "tick"
    /\ \E c \in DOMAIN clients :
          /\ readyState[clients[c].ws] = "CLOSING"
          /\ clients[c].ws \notin disconnected
          /\ \E s \in clients[c].subscribedSymbols :
                \E i \in DOMAIN sent : sent[i].text = s /\ sent[i].ws # clients[c].ws

\* C23: a message handler, and so every subscribe, leaves each record of the
\* price table in the table exactly as it was: a subscribe gives a record
\* only to a symbol that has none.
C23_SubscribeKeepsExistingRecord ==
    [][op'.name = "message" =>
         \A s \in DOMAIN stockPrices :
            s \in DOMAIN stockPrices' /\ stockPrices'[s] = stockPrices[s]]_vars

\* C23 witness: a session has just subscribed to a symbol it was not
\* subscribed to and no other session is subscribed to, and the record of
\* the symbol is one that a tick has advanced, not one a subscribe makes.
C23_Witness ==
    /\ op.name = "message"
    /\ \E c \in SessionsOf(clients, op.ws) :
          \E s \in clients[c].subscribedSymbols \ op.before :
             /\ SubscribersOf(clients, s) = {c}
             /\ s \in DOMAIN stockPrices
             /\ \A d \in InitDraws : \A t \in 0..MaxTime :
                   stockPrices[s] # initializeStockPrice(s, d, t)

\* C24: the subscription set of every session of the table is a subset of
\* activeSymbols, the set of symbols the tick visits.
C24_SubscribedSymbolsAreActive ==
    \A c \in DOMAIN clients : clients[c].subscribedSymbols \subseteq activeSymbols

\* C24 witness: activeSymbols is stale: a session is subscribed to a symbol,
\* and activeSymbols holds it and also a symbol no session is subscribed to.
C24_Witness ==
    /\ \E c \in DOMAIN clients : clients[c].subscribedSymbols # {}
    /\ \E s \in activeSymbols : SubscribersOf(clients, s) = {}

\* C25: every symbol of activeSymbols has a record in the price table, and
\* no tick has found a symbol without one and been ended by the
\* initialization that updatePrices then calls.
C25_ActiveSymbolsHaveRecords ==
    /\ activeSymbols \subseteq DOMAIN stockPrices
    /\ ~exited

\* C26: a close or error handler leaves every session that holds another
\* connection in the table as it was, changes no record and leaves
\* activeSymbols as the union over the sessions of the table; when no session
\* holds its connection any more (an error or close was handled before, a
\* sweep or a failed send removed the session) it leaves the table as it is.
\* That is the state a single disconnect leaves.
C26_DisconnectIsIdempotent ==
    [][op'.name \in {"close", "error"} =>
         /\ \A c \in DOMAIN clients :
               clients[c].ws # op'.ws => c \in DOMAIN clients' /\ clients'[c] = clients[c]
         /\ SessionsOf(clients, op'.ws) = {} => clients' = clients
         /\ stockPrices' = stockPrices
         /\ activeSymbols' = UNION {clients'[c].subscribedSymbols : c \in DOMAIN clients'}]_vars

\* C27: a message on a connection that no session of the table holds changes
\* no session, activeSymbols or record, and nothing is sent for it; only text
\* that is not JSON is answered, with the error message of the parser.
C27_MessageWithoutSessionIsIgnored ==
    [][(op'.name = "message" /\ SessionsOf(clients, op'.ws) = {}) =>
         /\ clients' = clients
         /\ activeSymbols' = activeSymbols
         /\ stockPrices' = stockPrices
         /\ \/ sent' = <<>>
            \/ sent' = <<Message(op'.ws, "error", "Invalid JSON message", <<>>)>>]_vars

=============================================================================
